---- MODULE Spec2Model ----
(***************************************************************************)
(* Tic-tac-toe minimax (scales/tictactoe.py): the board helpers, min_max   *)
(* as the recursive function the bot calls, min_max again as a call-stack  *)
(* machine over the one mutable test_board, and the process_turn handler.  *)
(***************************************************************************)
EXTENDS Integers, Sequences, FiniteSets, TLC

VARIABLES
  board,       \* the board under discussion: the argument of a search, or _board of a turn
  depth,       \* the depth argument handed to min_max
  side,        \* the player argument handed to min_max
  test_board,  \* the list object min_max mutates and restores
  result,      \* the [x, y, score] list min_max returned (<<>> before any return)
  second,      \* what a second call with the same arguments returned
  stack,       \* call-stack machine: the min_max activations, innermost last
  phase,       \* where the run is
  components,  \* the message's buttons: their styles and whether they are disabled
  winner,      \* process_turn's winner ("None" while the game goes on)
  candidate,   \* the value random.choice([4, 6]) drew in the last turn
  remaining    \* len(possible_positions) in the last turn

vars == <<board, depth, side, test_board, result, second, stack, phase,
          components, winner, candidate, remaining>>

----------------------------------------------------------------------------
(* Bounds of the model. *)

\* boards handed to the search have at most this many empty cells
MaxEmpty == 2
\* the largest depth argument tried on them
MaxDepth == 3
\* depth arguments go down to -MaxNeg
MaxNeg == 1

----------------------------------------------------------------------------
(* GameState and the board helpers. *)

empty == 0
player == -1
ai == 1

\* math.inf, as a score above every evaluation (-1, 0, +1)
inf == 2

\* a Python list of three items, indexed from 0
list3(a, b, c) == (0 :> a) @@ (1 :> b) @@ (2 :> c)

BoardTemplate == list3(list3(0, 0, 0), list3(0, 0, 0), list3(0, 0, 0))

determine_win_state(b, p) ==
  \/ b[0][0] = p /\ b[0][1] = p /\ b[0][2] = p
  \/ b[1][0] = p /\ b[1][1] = p /\ b[1][2] = p
  \/ b[2][0] = p /\ b[2][1] = p /\ b[2][2] = p
  \/ b[0][0] = p /\ b[1][0] = p /\ b[2][0] = p
  \/ b[0][1] = p /\ b[1][1] = p /\ b[2][1] = p
  \/ b[0][2] = p /\ b[1][2] = p /\ b[2][2] = p
  \/ b[0][0] = p /\ b[1][1] = p /\ b[2][2] = p
  \/ b[2][0] = p /\ b[1][1] = p /\ b[0][2] = p

\* the comprehension of one row i: [i, x] for x in range(3) if board[i][x] == empty
row_positions(b, i) ==
  SelectSeq(<<<<i, 0>>, <<i, 1>>, <<i, 2>>>>, LAMBDA c : b[c[1]][c[2]] = empty)

determine_possible_positions(b) ==
  row_positions(b, 0) \o row_positions(b, 1) \o row_positions(b, 2)

\* the two scores exchanged: +1 for a player win, -1 for an ai win
evaluate_exchanged(b) ==
  IF determine_win_state(b, ai) THEN -1
  ELSE IF determine_win_state(b, player) THEN 1
  ELSE 0

evaluate(b) ==
  IF determine_win_state(b, ai) THEN 1
  ELSE IF determine_win_state(b, player) THEN -1
  ELSE 0

----------------------------------------------------------------------------
(* The message components: one button per cell, told apart by its style. *)

GREY == 2
BLURPLE == 1
RED == 4

\* the style render_board gives the button of a cell
button_style(v) ==
  IF v = empty THEN GREY
  ELSE IF v = player THEN BLURPLE
  ELSE RED

render_board(b, disable) ==
  [styles |-> list3(
     list3(button_style(b[0][0]), button_style(b[0][1]), button_style(b[0][2])),
     list3(button_style(b[1][0]), button_style(b[1][1]), button_style(b[1][2])),
     list3(button_style(b[2][0]), button_style(b[2][1]), button_style(b[2][2]))),
   disabled |-> disable]

\* the cell determine_board_state reads from the button at [i][x]
button_state(c, i, x) ==
  IF c.styles[i][x] = 2 THEN empty
  ELSE IF c.styles[i][x] = 1 THEN player
  ELSE IF c.styles[i][x] = 4 THEN ai
  ELSE BoardTemplate[i][x]

determine_board_state(c) ==
  list3(list3(button_state(c, 0, 0), button_state(c, 0, 1), button_state(c, 0, 2)),
        list3(button_state(c, 1, 0), button_state(c, 1, 1), button_state(c, 1, 2)),
        list3(button_state(c, 2, 0), button_state(c, 2, 1), button_state(c, 2, 2)))

\* a list index of a 3-element list: a negative one counts from the end
py_index(i) == IF i < 0 THEN i + 3 ELSE i

\* _board[a][b] = v
set_cell(b, x, y, v) == [b EXCEPT ![py_index(x)][py_index(y)] = v]

----------------------------------------------------------------------------
(* min_max, statement by statement. *)

\* best = [-1, -1, -inf] if player == ai else [-1, -1, +inf], with the signs swapped
initial_best_swapped(p) == IF p = ai THEN <<-1, -1, inf>> ELSE <<-1, -1, -inf>>

initial_best(p) == IF p = ai THEN <<-1, -1, -inf>> ELSE <<-1, -1, inf>>

cutoff(b, d) ==
  d = 0 \/ determine_win_state(b, player) \/ determine_win_state(b, ai)

\* the placement missing: the board goes into the recursion as it is
place_nothing(b, x, y, p) == b

\* test_board[x][y] = player
place(b, x, y, p) == [b EXCEPT ![x][y] = p]

\* the backtrack missing: the piece stays on the board
restore_skipped(b, x, y) == b

\* test_board[x][y] = GameState.empty
restore(b, x, y) == [b EXCEPT ![x][y] = empty]

\* the update taken on ties too: the last extremal move wins instead of the first
better_or_equal(p, score, best) ==
  (p = ai /\ score[3] >= best[3]) \/ (p # ai /\ score[3] <= best[3])

\* player == ai and score[2] > best[2] or player != ai and score[2] < best[2]
better(p, score, best) ==
  (p = ai /\ score[3] > best[3]) \/ (p # ai /\ score[3] < best[3])

RECURSIVE min_max(_, _, _)
RECURSIVE min_max_loop(_, _, _, _, _, _)

\* the for loop of min_max from its k-th cell on, tb and best as they stand
min_max_loop(cells, k, tb, d, p, best) ==
  IF k > Len(cells) THEN [best |-> best, board |-> tb]
  ELSE LET x == cells[k][1]
           y == cells[k][2]
           r == min_max(place(tb, x, y, p), d - 1, -p)
           score == <<x, y, r.best[3]>>
       IN IF better(p, score, best)
          THEN min_max_loop(cells, k + 1, restore(r.board, x, y), d, p, score)
          ELSE min_max_loop(cells, k + 1, restore(r.board, x, y), d, p, best)

\* what the call returns (best) and what it leaves in the list it was given (board)
min_max(tb, d, p) ==
  IF cutoff(tb, d)
  THEN [best |-> <<-1, -1, evaluate(tb)>>, board |-> tb]
  ELSE min_max_loop(determine_possible_positions(tb), 1, tb, d, p, initial_best(p))

----------------------------------------------------------------------------
(* The inputs of the search runs. *)

Cells == {empty, player, ai}

NumEmpty(b) == Len(determine_possible_positions(b))

Count(b, p) == Cardinality({c \in (0..2) \X (0..2) : b[c[1]][c[2]] = p})

SmallBoards == {b \in [0..2 -> [0..2 -> Cells]] : NumEmpty(b) <= MaxEmpty}

\* [[player, player, empty], [empty, ai, empty], [empty, empty, empty]]
ScenarioBoard ==
  list3(list3(player, player, empty), list3(empty, ai, empty), list3(empty, empty, empty))

SearchInputs ==
  {[board |-> b, depth |-> d, side |-> s] :
      b \in SmallBoards, d \in (0 - MaxNeg)..MaxDepth, s \in {player, ai}}
  \cup {[board |-> ScenarioBoard, depth |-> 9, side |-> ai],
        [board |-> BoardTemplate, depth |-> 1, side |-> ai]}

NoComponents == render_board(BoardTemplate, FALSE)

----------------------------------------------------------------------------
(* Search runs: min_max called on an input, then called again on the same *)
(* list object with the same depth and side.                              *)

InitSearch ==
  /\ \E in \in SearchInputs :
       /\ board = in.board
       /\ depth = in.depth
       /\ side = in.side
  /\ test_board = board
  /\ result = <<>>
  /\ second = <<>>
  /\ stack = <<>>
  /\ phase = "ready"
  /\ components = NoComponents
  /\ winner = "None"
  /\ candidate = 0
  /\ remaining = 0

Call ==
  /\ phase = "ready"
  /\ \E r \in {min_max(test_board, depth, side)} :
        /\ result' = r.best
        /\ test_board' = r.board
  /\ phase' = "returned"
  /\ UNCHANGED <<board, depth, side, second, stack, components, winner,
                 candidate, remaining>>

CallAgain ==
  /\ phase = "returned"
  /\ \E r \in {min_max(test_board, depth, side)} :
        /\ second' = r.best
        /\ test_board' = r.board
  /\ phase' = "repeated"
  /\ UNCHANGED <<board, depth, side, result, stack, components, winner,
                 candidate, remaining>>

NextSearch == Call \/ CallAgain

SpecSearch == InitSearch /\ [][NextSearch]_vars

----------------------------------------------------------------------------
(* Claims about min_max as a function (SpecSearch). *)

Returned == phase \in {"returned", "repeated"}

NoWinner(b) == ~determine_win_state(b, player) /\ ~determine_win_state(b, ai)

\* C2: on [[player,player,empty],[empty,ai,empty],[empty,empty,empty]],
\* min_max(board, 9, ai) returns the move (0,2), and the board with ai placed
\* at (0,2) is not won by the player.
C2_ScenarioBlocks ==
  (Returned /\ board = ScenarioBoard /\ depth = 9 /\ side = ai)
    => /\ result[1] = 0
       /\ result[2] = 2
       /\ ~determine_win_state(place(board, result[1], result[2], ai), player)

C2_Witness ==
  /\ Returned
  /\ board = ScenarioBoard
  /\ depth = 9
  /\ side = ai
  /\ result[1] = 0
  /\ result[2] = 2

\* C3: on a full board without a winning line, for every depth > 0 and either
\* side, min_max returns the draw evaluation: the sentinel move with score 0.
C3_FullBoardIsDraw ==
  (Returned /\ NumEmpty(board) = 0 /\ NoWinner(board) /\ depth > 0)
    => result = <<-1, -1, 0>>

\* C5: when min_max returns, every cell of the list it was given holds the
\* value it held before the call, and a second call with the same board, depth
\* and side returns the same move and score as the first.
C5_BoardRestored ==
  /\ Returned => test_board = board
  /\ phase = "repeated" => second = result

C5_Witness ==
  /\ phase = "repeated"
  /\ NumEmpty(board) >= 2
  /\ depth >= 2
  /\ NoWinner(board)
  /\ result[1] >= 0
  /\ second = result
  /\ test_board = board

\* the score min_max records for the k-th legal move of board
child_score(b, k, d, p) ==
  LET c == determine_possible_positions(b)[k]
  IN min_max(place(b, c[1], c[2], p), d - 1, -p).best[3]

\* the first legal move, in row-major order, whose recorded score is the
\* maximum (ai) or minimum (player) of the recorded scores of all legal moves
first_extremal(b, d, p) ==
  LET n == NumEmpty(b)
      sc == [k \in 1..n |-> child_score(b, k, d, p)]
      extreme(k) == \A j \in 1..n : IF p = ai THEN sc[j] <= sc[k] ELSE sc[j] >= sc[k]
      k0 == CHOOSE k \in 1..n : extreme(k) /\ \A j \in 1..(k - 1) : ~extreme(j)
  IN determine_possible_positions(b)[k0]

\* C6: on a board with no winning line and an empty cell, for every depth >= 1
\* and either side, min_max returns the first empty cell in row-major order
\* whose recursive score is the maximum (ai) or minimum (player) over all legal
\* moves; on the empty board with depth 1 for ai that is (0,0).
C6_FirstExtremalMove ==
  /\ (Returned /\ NoWinner(board) /\ NumEmpty(board) >= 1 /\ depth >= 1)
       => <<result[1], result[2]>> = first_extremal(board, depth, side)
  /\ (Returned /\ board = BoardTemplate /\ depth = 1 /\ side = ai)
       => <<result[1], result[2]>> = <<0, 0>>

----------------------------------------------------------------------------
(* min_max as it runs: one activation per stack entry, all of them working *)
(* on the one list test_board. An activation is at "entry" (line 119), in  *)
(* its loop between two cells ("loop"), or waiting for the recursive call  *)
(* it made for the first of its remaining cells ("wait").                 *)

activation(d, p) ==
  [pc |-> "entry", depth |-> d, player |-> p, cells |-> <<>>, best |-> initial_best(p)]

Top == stack[Len(stack)]

Popped == SubSeq(stack, 1, Len(stack) - 1)

WithTop(f) == [stack EXCEPT ![Len(stack)] = f]

RunInputs ==
  {[board |-> b, depth |-> d, side |-> s] :
      b \in SmallBoards, d \in (0 - MaxNeg)..MaxDepth, s \in {player, ai}}

InitRun ==
  /\ \E in \in RunInputs :
       /\ board = in.board
       /\ depth = in.depth
       /\ side = in.side
  /\ test_board = board
  /\ result = <<>>
  /\ second = <<>>
  /\ stack = <<activation(depth, side)>>
  /\ phase = "running"
  /\ components = NoComponents
  /\ winner = "None"
  /\ candidate = 0
  /\ remaining = 0

RunFrame == <<board, depth, side, second, phase, components, winner, candidate, remaining>>

\* lines 120-126: the terminal test holds, the activation returns the evaluation
ReturnEvaluation ==
  /\ stack # <<>>
  /\ Top.pc = "entry"
  /\ cutoff(test_board, Top.depth)
  /\ result' = <<-1, -1, evaluate(test_board)>>
  /\ stack' = Popped
  /\ UNCHANGED test_board
  /\ UNCHANGED RunFrame

\* line 128: the legal moves are listed once, before the first iteration
EnterLoop ==
  /\ stack # <<>>
  /\ Top.pc = "entry"
  /\ ~cutoff(test_board, Top.depth)
  /\ stack' = WithTop([Top EXCEPT !.pc = "loop",
                                  !.cells = determine_possible_positions(test_board)])
  /\ UNCHANGED <<test_board, result>>
  /\ UNCHANGED RunFrame

\* lines 129-131: place the piece and call min_max(test_board, depth - 1, -player)
Recurse ==
  /\ stack # <<>>
  /\ Top.pc = "loop"
  /\ Top.cells # <<>>
  /\ LET x == Head(Top.cells)[1]
         y == Head(Top.cells)[2]
     IN /\ test_board' = place(test_board, x, y, Top.player)
        /\ stack' = Append(WithTop([Top EXCEPT !.pc = "wait"]),
                           activation(Top.depth - 1, 0 - Top.player))
  /\ UNCHANGED result
  /\ UNCHANGED RunFrame

\* lines 132-141: the call has returned; backtrack, tag the score, keep the better
Resume ==
  /\ stack # <<>>
  /\ Top.pc = "wait"
  /\ LET x == Head(Top.cells)[1]
         y == Head(Top.cells)[2]
         score == <<x, y, result[3]>>
     IN /\ test_board' = restore(test_board, x, y)
        /\ stack' = WithTop([Top EXCEPT
                      !.pc = "loop",
                      !.cells = Tail(Top.cells),
                      !.best = IF better(Top.player, score, Top.best) THEN score ELSE Top.best])
  /\ UNCHANGED result
  /\ UNCHANGED RunFrame

\* line 142: the loop is over, the activation returns best
ReturnBest ==
  /\ stack # <<>>
  /\ Top.pc = "loop"
  /\ Top.cells = <<>>
  /\ result' = Top.best
  /\ stack' = Popped
  /\ UNCHANGED test_board
  /\ UNCHANGED RunFrame

NextRun == ReturnEvaluation \/ EnterLoop \/ Recurse \/ Resume \/ ReturnBest

SpecRun == InitRun /\ [][NextRun]_vars

\* the same runs with the interpreter always taking the next step
SpecRunFair == SpecRun /\ WF_vars(NextRun)

----------------------------------------------------------------------------
(* Claims about min_max as it runs (SpecRun). *)

Running == phase = "running"

\* recursive calls in progress below the outermost one
Nesting == Len(stack) - 1

\* activations that have a piece of theirs on the board
Waiting == Cardinality({k \in 1..Len(stack) : stack[k].pc = "wait"})

\* the outermost call has returned
Finished == Running /\ stack = <<>>

\* the call-stack machine returns what the function returns
RunAgreesWithFunction ==
  Finished => /\ result = min_max(board, depth, side).best
              /\ test_board = min_max(board, depth, side).board

\* every run of min_max comes to its return
RunTerminates == <>(stack = <<>>)

\* C4: for every board, either side and every depth <= 0, min_max returns at
\* once the sentinel move with score evaluate(board): no piece is placed and
\* no recursive call is made.
C4_NonPositiveDepthIsCutoff ==
  (Running /\ depth <= 0)
    => /\ Nesting <= 0
       /\ test_board = board
       /\ Finished => result = <<-1, -1, evaluate(board)>>

\* C9: every call of min_max terminates for every board, side and integer
\* depth, negative ones included: the nesting of recursive calls never exceeds
\* the number of empty cells of the board passed in, because every level in
\* progress has occupied one more cell, and a call that has not returned can
\* always take its next step.
C9_NestingBounded ==
  Running =>
    /\ stack # <<>> => Nesting <= NumEmpty(board)
    /\ NumEmpty(test_board) + Waiting = NumEmpty(board)
    /\ stack # <<>> => Nesting <= Waiting
    /\ stack = <<>> \/ ENABLED NextRun

C9_Witness ==
  /\ Running
  /\ depth < 0
  /\ NumEmpty(board) >= 2
  /\ stack # <<>>
  /\ Nesting = NumEmpty(board)
  /\ NumEmpty(test_board) = 0

----------------------------------------------------------------------------
(* process_turn: one click on a button of the game message. The handler   *)
(* is taken as a whole: decode the board, place the player's piece, let   *)
(* the ai answer, decide the winner, render the message again.            *)

\* random.choice([4, 6])
Candidates == {4, 6}

\* min(random.choice([4, 6]), depth) without the min
unclamped(c, r) == c

\* min(random.choice([4, 6]), depth)
clamp(c, r) == IF r < c THEN r ELSE c

\* lines 212-219
decide_winner(b) ==
  IF determine_win_state(b, player) THEN "player"
  ELSE IF determine_win_state(b, ai) THEN "ai"
  ELSE IF Len(determine_possible_positions(b)) = 0 THEN "Nobody"
  ELSE "None"

\* the buttons left enabled whatever the winner
never_disabled(w) == FALSE

\* disable=winner is not None
disable_buttons(w) == w # "None"

\* line 198 and line 201: the ai answers
ai_answers(b) ==
  /\ ~determine_win_state(b, player)
  /\ Len(determine_possible_positions(b)) # 0

InitTurn ==
  /\ board = BoardTemplate
  /\ components = render_board(BoardTemplate, FALSE)
  /\ winner = "None"
  /\ phase = "started"
  /\ depth = 0
  /\ side = ai
  /\ test_board = BoardTemplate
  /\ result = <<>>
  /\ second = <<>>
  /\ stack = <<>>
  /\ candidate = 0
  /\ remaining = 0

\* a disabled button sends no interaction
Clickable == phase \in {"started", "answered", "unanswered"} /\ ~components.disabled

\* lines 194-195: the cell is taken, the handler returns without an edit
TurnIgnored(i, x) ==
  /\ Clickable
  /\ determine_board_state(components)[i][x] # empty
  /\ UNCHANGED vars

\* lines 197-228 when the ai answers: c is what random.choice([4, 6]) draws
TurnAnswered(i, x, c) ==
  /\ Clickable
  /\ determine_board_state(components)[i][x] = empty
  /\ ai_answers(set_cell(determine_board_state(components), i, x, player))
  /\ \E b1 \in {set_cell(determine_board_state(components), i, x, player)} :
     \E r \in {Len(determine_possible_positions(b1))} :
     \E m \in {min_max(b1, clamp(c, r), ai)} :
     \E b2 \in {set_cell(b1, m.best[1], m.best[2], ai)} :
     \E w \in {decide_winner(b2)} :
        /\ candidate' = c
        /\ remaining' = r
        /\ depth' = clamp(c, r)
        /\ test_board' = m.board
        /\ result' = m.best
        /\ board' = b2
        /\ winner' = w
        /\ components' = render_board(b2, disable_buttons(w))
  /\ phase' = "answered"
  /\ UNCHANGED <<side, second, stack>>

\* lines 197-228 when the player has won or filled the board: no search
TurnUnanswered(i, x) ==
  /\ Clickable
  /\ determine_board_state(components)[i][x] = empty
  /\ LET b1 == set_cell(determine_board_state(components), i, x, player)
         w == decide_winner(b1)
     IN /\ ~ai_answers(b1)
        /\ board' = b1
        /\ winner' = w
        /\ components' = render_board(b1, disable_buttons(w))
  /\ phase' = "unanswered"
  /\ UNCHANGED <<depth, side, test_board, result, second, stack, candidate, remaining>>

process_turn ==
  \E i \in 0..2, x \in 0..2 :
    \/ TurnIgnored(i, x)
    \/ \E c \in Candidates : TurnAnswered(i, x, c)
    \/ TurnUnanswered(i, x)

NextTurn == process_turn

SpecTurn == InitTurn /\ [][NextTurn]_vars

----------------------------------------------------------------------------
(* Claims about games played through process_turn (SpecTurn). *)

InGame == phase \in {"started", "answered", "unanswered"}

\* C7: in every board reached through process_turn from the empty board, at
\* most one of determine_win_state(board, player) and
\* determine_win_state(board, ai) is true.
C7_AtMostOneWinner ==
  InGame => ~(determine_win_state(board, player) /\ determine_win_state(board, ai))

C7_Witness ==
  /\ phase = "answered"
  /\ winner = "ai"
  /\ components.disabled
  /\ determine_win_state(board, ai)
  /\ ~determine_win_state(board, player)

\* C8: with r legal moves left and candidate depth c in {4, 6}, the depth
\* process_turn hands to min_max is min(c, r): never more than r (never more
\* than 2 when r = 2) and never less than 1.
C8_DepthClamped ==
  /\ phase = "answered" =>
       /\ candidate \in {4, 6}
       /\ depth <= candidate
       /\ depth <= remaining
       /\ depth = candidate \/ depth = remaining
       /\ depth >= 1
       /\ remaining = 2 => depth <= 2
  /\ \A r \in 1..9, c \in Candidates :
       /\ clamp(c, r) \in {c, r}
       /\ clamp(c, r) <= c
       /\ clamp(c, r) <= r
       /\ clamp(c, r) >= 1

C8_Witness ==
  /\ phase = "answered"
  /\ remaining = 2
  /\ candidate = 6
  /\ depth = 2

\* C10: in every game played through process_turn, for either candidate
\* depth, the move min_max returns for the ai is a cell that is empty on the
\* current board: never the sentinel (-1,-1), never an occupied cell; so after
\* every turn the ai has as many cells as the player or one less.
C10_AiMoveIsEmptyCell ==
  /\ phase = "answered" =>
       /\ result[1] \in 0..2
       /\ result[2] \in 0..2
       /\ test_board[result[1]][result[2]] = empty
       /\ Count(board, ai) = Count(test_board, ai) + 1
       /\ Count(board, player) = Count(test_board, player)
  /\ InGame =>
       \/ Count(board, ai) = Count(board, player)
       \/ Count(board, ai) = Count(board, player) - 1

C10_Witness ==
  /\ phase = "answered"
  /\ candidate = 6
  /\ remaining = 4
  /\ result[1] \in 0..2
  /\ test_board[result[1]][result[2]] = empty
  /\ board[result[1]][result[2]] = ai

----------------------------------------------------------------------------
(* The perfect-play game: the ai opens on the empty board and always plays *)
(* the move of min_max(board, 9, ai); the player answers with any legal    *)
(* move.                                                                   *)

game_over(b) ==
  \/ determine_win_state(b, player)
  \/ determine_win_state(b, ai)
  \/ Len(determine_possible_positions(b)) = 0

InitPerfect ==
  /\ board = BoardTemplate
  /\ phase = "ai_to_move"
  /\ depth = 9
  /\ side = ai
  /\ test_board = BoardTemplate
  /\ result = <<>>
  /\ second = <<>>
  /\ stack = <<>>
  /\ components = NoComponents
  /\ winner = "None"
  /\ candidate = 0
  /\ remaining = 0

AiMove ==
  /\ phase = "ai_to_move"
  /\ \E m \in {min_max(board, depth, side)} :
     \E b2 \in {set_cell(m.board, m.best[1], m.best[2], ai)} :
        /\ result' = m.best
        /\ test_board' = m.board
        /\ board' = b2
        /\ winner' = decide_winner(b2)
        /\ phase' = IF game_over(b2) THEN "over" ELSE "player_to_move"
  /\ UNCHANGED <<depth, side, second, stack, components, candidate, remaining>>

PlayerMove(i, x) ==
  /\ phase = "player_to_move"
  /\ board[i][x] = empty
  /\ LET b1 == set_cell(board, i, x, player)
     IN /\ board' = b1
        /\ winner' = decide_winner(b1)
        /\ phase' = IF game_over(b1) THEN "over" ELSE "ai_to_move"
  /\ UNCHANGED <<depth, side, test_board, result, second, stack, components,
                 candidate, remaining>>

NextPerfect == AiMove \/ \E i \in 0..2, x \in 0..2 : PlayerMove(i, x)

SpecPerfect == InitPerfect /\ [][NextPerfect]_vars

\* C1: in every game from the empty board in which the ai moves first with
\* the move of min_max(board, 9, ai) and the player answers with any legal
\* move, no board is won by the player: every game ends in a draw or an ai
\* win.
C1_PlayerNeverWins ==
  phase \in {"ai_to_move", "player_to_move", "over"} =>
    /\ ~determine_win_state(board, player)
    /\ phase = "over" => winner \in {"ai", "Nobody"}

C1_Witness ==
  /\ phase = "over"
  /\ winner = "Nobody"
  /\ NumEmpty(board) = 0
  /\ NoWinner(board)

====
